---- MODULE Spec2Model ----
(***************************************************************************)
(* A model of the feishurobot webhook client: the signer (sign.go), the    *)
(* message envelope and its JSON encoding (message.go) and the delivery    *)
(* client Client.Send (client.go).                                         *)
(*                                                                         *)
(* Go strings are TLA+ strings, Go maps are records [isNil, entries], Go   *)
(* pointers and errors are records with a field nil.  SHA-256 is not       *)
(* computed: an HMAC digest and its Base64 text are written as the term    *)
(* that names their inputs, so two signatures are equal exactly when key   *)
(* and message are equal.                                                  *)
(***************************************************************************)
EXTENDS Integers, Sequences, FiniteSets, TLC

\* Number of callers that hold the client and call Send.
NumCalls == 2

Calls == 1..NumCalls

\* how many arguments NewPostMessageMultiLanguage is called with at most
MaxLangContents == 2

\* how many Messages are built from one Card
MaxBuilt == 1

\* how many direct calls of GenSign a behaviour makes
MaxSignCalls == 3

VARIABLES
  client,     \* the Client struct: WebhookURL, Secret, HTTPClient
  pc,         \* per call: the stage Send is in
  stages,     \* per call: the stages entered so far, in order
  ctx,        \* per call: state of the caller's context
  mem,        \* per call: the caller's Message (caller) and Send's msgCopy (copy)
  msg0,       \* per call: the caller's Message as it was when Send was called
  clock,      \* per call: what time.Now().Unix() returned (NoClock before)
  body,       \* per call: the bytes json.Marshal produced
  sent,       \* per call: the requests handed to HTTPClient.Do, in order
  reply,      \* per call: what HTTPClient.Do returned
  io,         \* per call: counters of body reads, parses and closes
  ctxlog,     \* per call: the context's state at the call, at Do and when Do returned
  ret,        \* per call: the (Response, error) Send returned
  signLog,    \* the direct calls of GenSign so far, with what they returned
  ctor,       \* the arguments of NewClient and of the last SetHTTPClient
  trip,       \* a Message made by a constructor, its wire JSON and the decoded Message
  builder,    \* a Card under construction and the last argument of each setter
  built       \* the Messages built from the Card, each with the Card as it then was

vars ==
  <<client, pc, stages, ctx, mem, msg0, clock, body, sent, reply, io, ctxlog, ret, signLog,
    ctor, trip, builder, built>>

(***************************************************************************)
(* Values                                                                  *)
(***************************************************************************)

\* error values: nil, or an error with its text and the text of the error it wraps (%w)
NoErr == [nil |-> TRUE, msg |-> "", wraps |-> ""]

NewErr(text) == [nil |-> FALSE, msg |-> text, wraps |-> ""]

\* fmt.Errorf(prefix + ": %w", e)
WrapErr(prefix, e) == [nil |-> FALSE, msg |-> prefix \o ": " \o e.msg, wraps |-> e.msg]

\* map[string]any: nil or a set of <<key, kind, value>>, the kind being the
\* dynamic type of the value: "string", "bool", "int", "float64", "map" (a
\* map[string]any), "struct" (a pointer to a struct), "slice" (a typed slice),
\* "[]any", and "chan", a value encoding/json cannot encode
NilMap == [isNil |-> TRUE, entries |-> {}]

MakeMap(es) == [isNil |-> FALSE, entries |-> es]

MapLen(m) == Cardinality(m.entries)

\* m[k] = v
MapPut(m, k, kind, v) == MakeMap({e \in m.entries : e[1] # k} \cup {<<k, kind, v>>})

MapKeys(m) == {e[1] : e \in m.entries}

\* a nil pointer, and a pointer to the value v
NilPtr == [isNil |-> TRUE, v |-> ""]

Ptr(v) == [isNil |-> FALSE, v |-> v]

MsgTypeText == "text"

MsgTypePost == "post"

MsgTypeImage == "image"

MsgTypeShareChat == "share_chat"

MsgTypeInteractive == "interactive"

LanguageZhCN == "zh_cn"

LanguageEnUS == "en_us"

\* the Message struct
Message(t, content, card, ts, sign) ==
  [MsgType |-> t, Content |-> content, Card |-> card, Timestamp |-> ts, Sign |-> sign]

ZeroMessage == Message("", NilMap, NilMap, 0, "")

NewTextMessage(text) ==
  Message(MsgTypeText, MakeMap({<<"text", "string", text>>}), NilMap, 0, "")

NewImageMessage(imageKey) ==
  Message(MsgTypeImage, MakeMap({<<"image_key", "string", imageKey>>}), NilMap, 0, "")

NewShareChatMessage(shareChatID) ==
  Message(MsgTypeShareChat, MakeMap({<<"share_chat_id", "string", shareChatID>>}), NilMap, 0, "")

NewTextElement(text) == MakeMap({<<"tag", "string", "text">>, <<"text", "string", text>>})

\* a Paragraph is a sequence of elements, a PostContent a title and paragraphs
NewParagraph(elements) == elements

NewPostContent(title, paragraphs) == [Title |-> title, Content |-> paragraphs]

NewPostLanguageContent(lang, content) == [Language |-> lang, Content |-> content]

\* the paragraphs are copied, element by element, into slices of maps
convertParagraphs(paragraphs) ==
  [i \in 1..Len(paragraphs) |-> [j \in 1..Len(paragraphs[i]) |-> paragraphs[i][j]]]

\* the map a post holds for one language
LanguageEntry(content) ==
  MakeMap({<<"title", "string", content.Title>>,
           <<"content", "slice", convertParagraphs(content.Content)>>})

NewPostMessage(lang, content) ==
  Message(MsgTypePost,
          MakeMap({<<"post", "map", MakeMap({<<lang, "map", LanguageEntry(content)>>})>>}),
          NilMap, 0, "")

\* postData after the loop over langContents: a later entry for a language
\* overwrites an earlier one
RECURSIVE postData(_)
postData(langContents) ==
  IF langContents = <<>> THEN MakeMap({})
  ELSE LET n == Len(langContents)
           lc == langContents[n]
       IN MapPut(postData(SubSeq(langContents, 1, n - 1)), lc.Language, "map",
                 LanguageEntry(lc.Content))

NewPostMessageMultiLanguage(langContents) ==
  Message(MsgTypePost, MakeMap({<<"post", "map", postData(langContents)>>}), NilMap, 0, "")

\* the Card struct; Config is a map, Body and Header are pointers
Card(schema, config, cardBody, header) ==
  [Schema |-> schema, Config |-> config, Body |-> cardBody, Header |-> header]

NewCard(schema) == Card(schema, NilMap, NilPtr, NilPtr)

\* the setters, as what they do to the struct c points to
SetConfig(c, config) == [c EXCEPT !.Config = config]

SetBody(c, b) == [c EXCEPT !.Body = b]

\* a slip: the header is stored in the body
SetHeaderInBody(c, header) == [c EXCEPT !.Body = header]

SetHeader(c, header) == [c EXCEPT !.Header = header]

\* c.ToMap(): a new map with schema and the fields that are not nil
ToMap(c) ==
  MakeMap({<<"schema", "string", c.Schema>>}
            \cup (IF ~c.Config.isNil THEN {<<"config", "map", c.Config>>} ELSE {})
            \cup (IF ~c.Body.isNil THEN {<<"body", "struct", c.Body>>} ELSE {})
            \cup (IF ~c.Header.isNil THEN {<<"header", "struct", c.Header>>} ELSE {}))

NewInteractiveMessage(c) == Message(MsgTypeInteractive, NilMap, ToMap(c), 0, "")

NewInteractiveMessageFromMap(card) ==
  Message(MsgTypeInteractive, NilMap, card, 0, "")

\* *Response: nil or the decoded struct
NilResponse == [nil |-> TRUE, Code |-> 0, Msg |-> ""]

ResponsePtr(code, m) == [nil |-> FALSE, Code |-> code, Msg |-> m]

(***************************************************************************)
(* sign.go                                                                 *)
(***************************************************************************)

Digit == <<"0", "1", "2", "3", "4", "5", "6", "7", "8", "9">>

RECURSIVE DecimalNat(_)
DecimalNat(n) ==
  IF n < 10 THEN Digit[n + 1] ELSE DecimalNat(n \div 10) \o Digit[(n % 10) + 1]

\* fmt.Sprintf("%v", n) and %d of an integer
Decimal(n) == IF n < 0 THEN "-" \o DecimalNat(0 - n) ELSE DecimalNat(n)

\* a slip: the secret comes first
StringToSignSwapped(secret, timestamp) == secret \o "\n" \o Decimal(timestamp)

\* a slip: the newline between the timestamp and the secret is left out
StringToSignUnseparated(secret, timestamp) == Decimal(timestamp) \o secret

\* timestamp + "\n" + secret
StringToSign(secret, timestamp) == Decimal(timestamp) \o "\n" \o secret

\* the byte 0x00, for which TLA+ has no escape: a character that no other
\* string of the model contains
NUL == "~"

RECURSIVE Zeros(_)
Zeros(n) == IF n <= 0 THEN "" ELSE NUL \o Zeros(n - 1)

\* sha256.BlockSize and sha256.Size, in bytes
HmacBlockSize == 64

Sha256Size == 32

\* sha256.Sum256, as a term
Sha256(data) == "sha256<" \o data \o ">"

\* hmac.New: a key longer than the block is replaced by its hash, and the key is
\* then filled with zero bytes up to the block size
PadKey(key) ==
  IF Len(key) > HmacBlockSize
    THEN Sha256(key) \o Zeros(HmacBlockSize - Sha256Size)
    ELSE key \o Zeros(HmacBlockSize - Len(key))

\* hmac.New(sha256.New, key); h.Write(data); h.Sum(nil), as a term in the padded
\* key and the data
HmacSHA256(key, data) == "hmac-sha256<" \o PadKey(key) \o "|" \o data \o ">"

\* base64.StdEncoding.EncodeToString, as a term
Base64Std(digest) == "base64<" \o digest \o ">"

\* a slip: the Write of the hash is taken to fail
HmacWriteFails(data) == NewErr("hash: write failed")

\* h.Write of hash.Hash never returns an error
HmacWriteErr(data) == NoErr

\* a slip: a call counter kept in a package variable is mixed into the key
GenSignCounted(secret, timestamp) ==
  [sign |-> Base64Std(HmacSHA256(StringToSign(secret, timestamp)
                                   \o Decimal(Len(signLog)), "")),
   err |-> NoErr]

GenSign(secret, timestamp) ==
  LET stringToSign == StringToSign(secret, timestamp)
      err == HmacWriteErr("")
  IN IF ~err.nil
       THEN [sign |-> "", err |-> WrapErr("failed to write to hmac", err)]
       ELSE [sign |-> Base64Std(HmacSHA256(stringToSign, "")), err |-> NoErr]


(***************************************************************************)
(* message.go: the envelope on the wire                                    *)
(***************************************************************************)

\* a JSON object: a function from the member names present to their values
NoBody == [f \in {} |-> ""]

\* omitempty: a nil or empty map, a zero number and an empty string are left out
JSONMembers(m) ==
  {"msg_type"}
    \cup (IF MapLen(m.Content) > 0 THEN {"content"} ELSE {})
    \cup (IF MapLen(m.Card) > 0 THEN {"card"} ELSE {})
    \cup (IF m.Timestamp # 0 THEN {"timestamp"} ELSE {})
    \cup (IF m.Sign # "" THEN {"sign"} ELSE {})

\* the JSON kind a value of a dynamic type is written as
JSONKind(kind) ==
  CASE kind = "string" -> "string"
    [] kind = "bool" -> "bool"
    [] kind \in {"int", "float64"} -> "number"
    [] kind \in {"map", "struct"} -> "object"
    [] kind \in {"slice", "[]any"} -> "array"
    [] OTHER -> "none"

\* the members of a JSON object written for a map; what is inside a nested
\* value is carried as it is
JSONObject(m) == {<<e[1], JSONKind(e[2]), e[3]>> : e \in m.entries}

JSONMember(m, f) ==
  CASE f = "msg_type" -> m.MsgType
    [] f = "content" -> JSONObject(m.Content)
    [] f = "card" -> JSONObject(m.Card)
    [] f = "timestamp" -> m.Timestamp
    [] f = "sign" -> m.Sign

\* encoding/json refuses channels, functions and complex numbers
Encodable(m) == \A e \in m.entries : e[2] # "chan"

\* json.Marshal(msgCopy)
MarshalMessage(m) ==
  IF ~(Encodable(m.Content) /\ Encodable(m.Card))
    THEN [json |-> NoBody, err |-> NewErr("json: unsupported type: chan int")]
    ELSE [json |-> [f \in JSONMembers(m) |-> JSONMember(m, f)], err |-> NoErr]

\* the dynamic type encoding/json gives a JSON value it stores in an any
GoKind(jsonKind) ==
  CASE jsonKind = "string" -> "string"
    [] jsonKind = "bool" -> "bool"
    [] jsonKind = "number" -> "float64"
    [] jsonKind = "object" -> "map"
    [] jsonKind = "array" -> "[]any"
    [] OTHER -> "none"

\* a JSON object decoded into a map[string]any that was nil
DecodeMap(members) == MakeMap({<<e[1], GoKind(e[2]), e[3]>> : e \in members})

\* a slip: Timestamp is tagged json:"-"
UnmarshalMessageNoTimestamp(j) ==
  Message(IF "msg_type" \in DOMAIN j THEN j["msg_type"] ELSE "",
          IF "content" \in DOMAIN j THEN DecodeMap(j["content"]) ELSE NilMap,
          IF "card" \in DOMAIN j THEN DecodeMap(j["card"]) ELSE NilMap,
          0,
          IF "sign" \in DOMAIN j THEN j["sign"] ELSE "")

\* json.Unmarshal(data, &msg) into a zero Message: a member that is absent
\* leaves the zero value of its field
UnmarshalMessage(j) ==
  Message(IF "msg_type" \in DOMAIN j THEN j["msg_type"] ELSE "",
          IF "content" \in DOMAIN j THEN DecodeMap(j["content"]) ELSE NilMap,
          IF "card" \in DOMAIN j THEN DecodeMap(j["card"]) ELSE NilMap,
          IF "timestamp" \in DOMAIN j THEN j["timestamp"] ELSE 0,
          IF "sign" \in DOMAIN j THEN j["sign"] ELSE "")

(***************************************************************************)
(* client.go: the response on the wire                                     *)
(***************************************************************************)

\* a JSON scalar of a response body
JNum(n) == [t |-> "num", n |-> n, s |-> ""]

JStr(s) == [t |-> "str", n |-> 0, s |-> s]

JNull == [t |-> "null", n |-> 0, s |-> ""]

\* the bytes of a response body: valid JSON or not, the kind of the top-level
\* value, and the members code and msg it has when it is an object
Doc(valid, top, members) == [valid |-> valid, top |-> top, members |-> members]

NoDoc == Doc(FALSE, "", NoBody)

\* a slip: a body without the member is refused
DecodeIntRequired(d, name) ==
  IF name \notin DOMAIN d.members THEN [v |-> 0, ok |-> FALSE]
  ELSE IF d.members[name].t = "num" THEN [v |-> d.members[name].n, ok |-> TRUE]
  ELSE [v |-> 0, ok |-> FALSE]

\* an int member: a number is stored, null leaves the zero value, anything else
\* is an UnmarshalTypeError
DecodeInt(d, name) ==
  IF name \notin DOMAIN d.members THEN [v |-> 0, ok |-> TRUE]
  ELSE IF d.members[name].t = "num" THEN [v |-> d.members[name].n, ok |-> TRUE]
  ELSE IF d.members[name].t = "null" THEN [v |-> 0, ok |-> TRUE]
  ELSE [v |-> 0, ok |-> FALSE]

DecodeString(d, name) ==
  IF name \notin DOMAIN d.members THEN [v |-> "", ok |-> TRUE]
  ELSE IF d.members[name].t = "str" THEN [v |-> d.members[name].s, ok |-> TRUE]
  ELSE IF d.members[name].t = "null" THEN [v |-> "", ok |-> TRUE]
  ELSE [v |-> "", ok |-> FALSE]

\* json.Unmarshal(respBody, &apiResp) into a zero Response
UnmarshalResponse(d) ==
  IF ~d.valid
    THEN [Code |-> 0, Msg |-> "", err |-> NewErr("invalid character")]
  ELSE IF d.top = "null"
    THEN [Code |-> 0, Msg |-> "", err |-> NoErr]
  ELSE IF d.top # "object"
    THEN [Code |-> 0, Msg |-> "",
          err |-> NewErr("json: cannot unmarshal into Go value of type feishubot.Response")]
  ELSE LET code == DecodeInt(d, "code")
           m == DecodeString(d, "msg")
       IN [Code |-> code.v, Msg |-> m.v,
           err |-> IF code.ok /\ m.ok THEN NoErr
                   ELSE NewErr("json: cannot unmarshal into Go struct field")]


(***************************************************************************)
(* Inputs                                                                  *)
(***************************************************************************)

WebhookURLs == {"https://open.feishu.cn/open-apis/bot/v2/hook/abc123", ":bad"}

\* url.Parse: a URL that starts with a colon has no protocol scheme
URLParses(u) == u # ":bad"

Secrets == {"", "test_secret"}

\* HTTPClient implementations: the http.Client of NewClient and a MockHTTPClient
Transports == {"default", "mock"}

\* what time.Now().Unix() can return: the epoch, a time before it, times after it
ClockValues == {0 - 1, 0, 1, 1599360473}

TextContent == MakeMap({<<"text", "string", "test">>})

ChanContent == MakeMap({<<"text", "chan", "">>})

CardMap == MakeMap({<<"schema", "string", "2.0">>})

\* the envelopes of the constructors and hand-built ones, with the Timestamp and
\* Sign a caller may have set (TestMessageWithSignature)
Messages ==
  { Message(e[1], e[2], e[3], ts, sg) :
      e \in { <<MsgTypeText, TextContent, NilMap>>,
              <<MsgTypeText, ChanContent, NilMap>>,
              <<MsgTypeInteractive, NilMap, CardMap>> },
      ts \in {0, 1599360473},
      sg \in {"", "abc123"} }

CtxStates == {"active", "canceled", "deadline"}

\* ctx.Err()
CtxErr(k) ==
  IF k = "canceled" THEN NewErr("context canceled")
  ELSE IF k = "deadline" THEN NewErr("context deadline exceeded")
  ELSE NoErr

\* response bodies
BodySuccess == Doc(TRUE, "object", [f \in {"code", "msg"} |->
                 IF f = "code" THEN JNum(0) ELSE JStr("success")])

BodyKeyWords == Doc(TRUE, "object", [f \in {"code", "msg"} |->
                  IF f = "code" THEN JNum(19024) ELSE JStr("Key Words Not Found")])

BodyEmptyObject == Doc(TRUE, "object", NoBody)

BodyNull == Doc(TRUE, "null", NoBody)

BodyNotJSON == Doc(FALSE, "", NoBody)

BodyCodeString == Doc(TRUE, "object", [f \in {"code"} |-> JStr("x")])

Bodies ==
  {BodySuccess, BodyKeyWords, BodyEmptyObject, BodyNull, BodyNotJSON, BodyCodeString}

\* resp.Body: a stream that yields its bytes or fails while being read
Stream(readFails, d) == [readFails |-> readFails, data |-> d]

Streams == {Stream(FALSE, d) : d \in Bodies} \cup {Stream(TRUE, NoDoc)}

\* what Do returns: (nil, err), (resp, nil) or (nil, nil)
ErrReply(e) == [kind |-> "err", err |-> e, status |-> 0, stream |-> Stream(TRUE, NoDoc)]

RespReply(status, st) == [kind |-> "resp", err |-> NoErr, status |-> status, stream |-> st]

NilReply == [kind |-> "nil", err |-> NoErr, status |-> 0, stream |-> Stream(TRUE, NoDoc)]

NoReply == [kind |-> "none", err |-> NoErr, status |-> 0, stream |-> Stream(TRUE, NoDoc)]

Responses == {RespReply(st, b) : st \in {200, 400}, b \in Streams}

\* everything a Do can return
Replies ==
  Responses \cup {NilReply} \cup
    {ErrReply(e) : e \in {NewErr("connection refused"), CtxErr("canceled"),
                          CtxErr("deadline")}}

\* http.Client.Do returns the context's error once the context is done, otherwise
\* a network error or a response; a MockHTTPClient returns what its DoFunc
\* returns, and (nil, nil) when DoFunc is unset
DoReplies(transport, k) ==
  IF transport = "default"
    THEN IF k # "active" THEN {ErrReply(CtxErr(k))}
         ELSE {ErrReply(NewErr("connection refused"))} \cup Responses
    ELSE {ErrReply(NewErr("connection refused")), NilReply} \cup Responses


(***************************************************************************)
(* client.go: NewClient, SetHTTPClient and the steps of Client.Send        *)
(***************************************************************************)

\* a slip: the secret is not stored
NewClientUnsigned(webhookURL, secret) ==
  [WebhookURL |-> webhookURL, Secret |-> "", HTTPClient |-> "default"]

NewClient(webhookURL, secret) ==
  [WebhookURL |-> webhookURL, Secret |-> secret, HTTPClient |-> "default"]

\* a slip: msgCopy := msg, so that Send signs the caller's Message
SendTargetAliased == "caller"

\* msgCopy := *msg: what Send signs and serializes is its own copy
SendTarget == "copy"

\* a slip: the signing block runs whatever the secret
SigningAlways(secret) == TRUE

\* if c.Secret != ""
SigningEnabled(secret) == secret # ""

\* a slip: the timestamp is kept in a variable the calls in flight share, so a
\* call signs with the reading of another call
SignCopyShared(secret, m, now) ==
  LET seen == {clock[d].t : d \in {e \in Calls : clock[e].read}}
      t == IF seen = {} THEN now ELSE CHOOSE x \in seen : \A y \in seen : x <= y
      r == GenSign(secret, t)
  IN IF ~r.err.nil
       THEN [msg |-> m, err |-> WrapErr("failed to generate signature", r.err)]
       ELSE [msg |-> [m EXCEPT !.Timestamp = t, !.Sign = r.sign], err |-> NoErr]

\* the signing block: GenSign, then the two assignments to msgCopy
SignCopy(secret, m, now) ==
  LET r == GenSign(secret, now)
  IN IF ~r.err.nil
       THEN [msg |-> m, err |-> WrapErr("failed to generate signature", r.err)]
       ELSE [msg |-> [m EXCEPT !.Timestamp = now, !.Sign = r.sign], err |-> NoErr]

\* a slip: the error of json.Marshal is dropped
SerializeCopyUnchecked(m) == [json |-> MarshalMessage(m).json, err |-> NoErr]

\* json.Marshal(msgCopy) and its error check
SerializeCopy(m) ==
  LET r == MarshalMessage(m)
  IN IF ~r.err.nil
       THEN [json |-> NoBody, err |-> WrapErr("failed to marshal message", r.err)]
       ELSE [json |-> r.json, err |-> NoErr]

NoRequest == [Method |-> "", URL |-> "", Header |-> {}, Body |-> NoBody, Ctx |-> ""]

\* a slip: the request is built without its method and header
BuildRequestBare(url, b) ==
  IF ~URLParses(url)
    THEN [req |-> NoRequest,
          err |-> WrapErr("failed to create request", NewErr("missing protocol scheme"))]
    ELSE [req |-> [Method |-> "GET", URL |-> url, Header |-> {},
                   Body |-> b, Ctx |-> "ctx"],
          err |-> NoErr]

\* a slip: http.NewRequest, which binds the request to context.Background()
BuildRequestBackground(url, b) ==
  IF ~URLParses(url)
    THEN [req |-> NoRequest,
          err |-> WrapErr("failed to create request", NewErr("missing protocol scheme"))]
    ELSE [req |-> [Method |-> "POST", URL |-> url,
                   Header |-> {<<"Content-Type", "application/json">>},
                   Body |-> b, Ctx |-> "background"],
          err |-> NoErr]

\* http.NewRequestWithContext(ctx, http.MethodPost, c.WebhookURL, body), its error
\* check, and req.Header.Set("Content-Type", "application/json")
BuildRequest(url, b) ==
  IF ~URLParses(url)
    THEN [req |-> NoRequest,
          err |-> WrapErr("failed to create request", NewErr("missing protocol scheme"))]
    ELSE [req |-> [Method |-> "POST", URL |-> url,
                   Header |-> {<<"Content-Type", "application/json">>},
                   Body |-> b, Ctx |-> "ctx"],
          err |-> NoErr]

\* a slip: a failed attempt is dispatched again
AfterDoRetries(r) ==
  IF ~r.err.nil THEN [next |-> "Requesting", err |-> NoErr]
  ELSE IF r.kind = "nil" THEN [next |-> "Panicked", err |-> NoErr]
  ELSE [next |-> "Parsing", err |-> NoErr]

\* a slip: a status other than 200 is returned as an error
AfterDoChecksStatus(r) ==
  IF ~r.err.nil
    THEN [next |-> "Done", err |-> WrapErr("failed to send request", r.err)]
  ELSE IF r.kind = "nil"
    THEN [next |-> "Panicked", err |-> NoErr]
  ELSE IF r.status # 200
    THEN [next |-> "Done", err |-> NewErr("unexpected status " \o Decimal(r.status))]
  ELSE [next |-> "Parsing", err |-> NoErr]

\* a slip: the error of Do is not checked
AfterDoIgnoresErr(r) ==
  IF r.kind = "nil" THEN [next |-> "Panicked", err |-> NoErr]
  ELSE [next |-> "Parsing", err |-> NoErr]

\* resp, err := c.HTTPClient.Do(req) and what follows it: an error is wrapped and
\* returned; otherwise defer resp.Body.Close() reads resp.Body, a nil pointer
\* dereference when resp is nil
AfterDo(r) ==
  IF ~r.err.nil
    THEN [next |-> "Done", err |-> WrapErr("failed to send request", r.err)]
  ELSE IF r.kind = "nil"
    THEN [next |-> "Panicked", err |-> NoErr]
  ELSE [next |-> "Parsing", err |-> NoErr]

\* io.ReadAll(resp.Body)
ReadAll(st) ==
  IF st.readFails THEN [data |-> NoDoc, err |-> NewErr("unexpected EOF")]
  ELSE [data |-> st.data, err |-> NoErr]

\* a slip: an API failure returns the error without the Response
ClassifyEitherOr(apiResp) ==
  IF apiResp.Code # 0
    THEN [resp |-> NilResponse,
          err |-> NewErr("API error (code " \o Decimal(apiResp.Code) \o "): " \o apiResp.Msg)]
    ELSE [resp |-> ResponsePtr(apiResp.Code, apiResp.Msg), err |-> NoErr]

\* a slip: the code of the Response is not checked
ClassifyIgnoresCode(apiResp) ==
  [resp |-> ResponsePtr(apiResp.Code, apiResp.Msg), err |-> NoErr]

\* the check for API errors and the two final returns
Classify(apiResp) ==
  IF apiResp.Code # 0
    THEN [resp |-> ResponsePtr(apiResp.Code, apiResp.Msg),
          err |-> NewErr("API error (code " \o Decimal(apiResp.Code) \o "): " \o apiResp.Msg)]
    ELSE [resp |-> ResponsePtr(apiResp.Code, apiResp.Msg), err |-> NoErr]

\* a slip: the error of json.Unmarshal is dropped
ParseResponseIgnoresDecodeErr(st) ==
  LET rd == ReadAll(st)
      un == UnmarshalResponse(rd.data)
  IN IF ~rd.err.nil
       THEN [resp |-> NilResponse, reads |-> 1, parses |-> 0,
             err |-> WrapErr("failed to read response body", rd.err)]
       ELSE [resp |-> ResponsePtr(un.Code, un.Msg), reads |-> 1, parses |-> 1,
             err |-> IF un.Code # 0 THEN NewErr("API error") ELSE NoErr]

\* from io.ReadAll to the return: the result and how often the body was read and parsed
ParseResponse(st) ==
  LET rd == ReadAll(st)
      un == UnmarshalResponse(rd.data)
  IN IF ~rd.err.nil
       THEN [resp |-> NilResponse, reads |-> 1, parses |-> 0,
             err |-> WrapErr("failed to read response body", rd.err)]
     ELSE IF ~un.err.nil
       THEN [resp |-> NilResponse, reads |-> 1, parses |-> 1,
             err |-> WrapErr("failed to unmarshal response", un.err)]
     ELSE [resp |-> Classify(un).resp, reads |-> 1, parses |-> 1,
           err |-> Classify(un).err]

\* a slip: the body is closed at the last return only, not by a defer
BodyClosesOnSuccessOnly(r) == IF r.err.nil THEN 1 ELSE 0

\* defer resp.Body.Close(): how often the body is closed when Send returns with r
BodyCloses(r) == 1

NoClock == [read |-> FALSE, t |-> 0]

NoIO == [reads |-> 0, parses |-> 0, closes |-> 0]

NoRet == [resp |-> NilResponse, err |-> NoErr]

NoCtxLog == [atCall |-> "none", atDo |-> "none", atReturn |-> "none"]

IdleMem == [caller |-> ZeroMessage, copy |-> ZeroMessage]

\* no Message has been made, no Card has been created
NoTrip ==
  [stage |-> "none", by |-> "", langContents |-> <<>>, msg |-> ZeroMessage,
   json |-> NoBody, back |-> ZeroMessage]

\* the last argument of a setter: none before its first call
NoLast(zero) == [called |-> FALSE, v |-> zero]

NoCard ==
  [stage |-> "none", schema |-> "", obj |-> NewCard(""),
   last |-> [config |-> NoLast(NilMap), body |-> NoLast(NilPtr), header |-> NoLast(NilPtr)],
   ret |-> NewCard(""), map |-> NilMap]

\* no Send is in progress and GenSign has not been called
Quiet ==
  /\ pc = [c \in Calls |-> "Idle"]
  /\ stages = [c \in Calls |-> <<>>]
  /\ ctx = [c \in Calls |-> "active"]
  /\ mem = [c \in Calls |-> IdleMem]
  /\ msg0 = [c \in Calls |-> ZeroMessage]
  /\ clock = [c \in Calls |-> NoClock]
  /\ body = [c \in Calls |-> NoBody]
  /\ sent = [c \in Calls |-> <<>>]
  /\ reply = [c \in Calls |-> NoReply]
  /\ io = [c \in Calls |-> NoIO]
  /\ ctxlog = [c \in Calls |-> NoCtxLog]
  /\ ret = [c \in Calls |-> NoRet]
  /\ signLog = <<>>
  /\ trip = NoTrip
  /\ builder = NoCard
  /\ built = <<>>

\* the state after client := NewClient(webhookURL, secret)
Constructed(webhookURL, secret) ==
  /\ client = NewClient(webhookURL, secret)
  /\ ctor = [WebhookURL |-> webhookURL, Secret |-> secret, set |-> "none"]
  /\ Quiet

Init == \E u \in WebhookURLs, s \in Secrets : Constructed(u, s)

Enter(c, stage) ==
  /\ pc' = [pc EXCEPT ![c] = stage]
  /\ stages' = [stages EXCEPT ![c] = Append(@, stage)]

Finish(c, resp, err) ==
  /\ pc' = [pc EXCEPT ![c] = "Done"]
  /\ ret' = [ret EXCEPT ![c] = [resp |-> resp, err |-> err]]
  /\ UNCHANGED stages

\* func (c *Client) SetHTTPClient(client HTTPClient), called between sends
SetHTTPClient(t) ==
  /\ \A d \in Calls : pc[d] = "Idle"
  /\ client' = [client EXCEPT !.HTTPClient = t]
  /\ ctor' = [ctor EXCEPT !.set = t]
  /\ UNCHANGED <<pc, stages, ctx, mem, msg0, clock, body, sent, reply, io, ctxlog, ret,
                 signLog, trip, builder, built>>

\* Send(ctx, msg) is entered: the envelope is copied
SendEntry(c, m, k) ==
  /\ pc[c] = "Idle"
  /\ mem' = [mem EXCEPT ![c] = [caller |-> m, copy |-> m]]
  /\ msg0' = [msg0 EXCEPT ![c] = m]
  /\ ctx' = [ctx EXCEPT ![c] = k]
  /\ ctxlog' = [ctxlog EXCEPT ![c] = [NoCtxLog EXCEPT !.atCall = k]]
  /\ Enter(c, IF SigningEnabled(client.Secret) THEN "Signing" ELSE "Serializing")
  /\ UNCHANGED <<client, clock, body, sent, reply, io, ret, signLog, ctor, trip, builder, built>>

\* a caller calls Send(ctx, msg) while no other call is in progress
Call(c, m, k) ==
  /\ \A d \in Calls : pc[d] = "Idle"
  /\ SendEntry(c, m, k)

\* a caller calls Send(ctx, msg) whatever the other callers are doing
ConcurrentCall(c, m, k) == SendEntry(c, m, k)

\* timestamp := time.Now().Unix(), GenSign, msgCopy.Timestamp, msgCopy.Sign
Sign(c, now) ==
  /\ pc[c] = "Signing"
  /\ clock' = [clock EXCEPT ![c] = [read |-> TRUE, t |-> now]]
  /\ LET r == SignCopy(client.Secret, mem[c][SendTarget], now)
     IN IF ~r.err.nil
          THEN Finish(c, NilResponse, r.err) /\ UNCHANGED mem
          ELSE /\ mem' = [mem EXCEPT ![c][SendTarget] = r.msg]
               /\ Enter(c, "Serializing")
               /\ UNCHANGED ret
  /\ UNCHANGED <<client, ctx, msg0, body, sent, reply, io, ctxlog,
                 signLog, ctor, trip, builder, built>>

\* body, err := json.Marshal(msgCopy)
Serialize(c) ==
  /\ pc[c] = "Serializing"
  /\ LET r == SerializeCopy(mem[c][SendTarget])
     IN IF ~r.err.nil
          THEN Finish(c, NilResponse, r.err) /\ UNCHANGED body
          ELSE /\ body' = [body EXCEPT ![c] = r.json]
               /\ Enter(c, "Requesting")
               /\ UNCHANGED ret
  /\ UNCHANGED <<client, ctx, mem, msg0, clock, sent, reply, io, ctxlog,
                 signLog, ctor, trip, builder, built>>

\* the request is built and handed to c.HTTPClient.Do
Request(c) ==
  /\ pc[c] = "Requesting"
  /\ LET r == BuildRequest(client.WebhookURL, body[c])
     IN IF ~r.err.nil
          THEN Finish(c, NilResponse, r.err) /\ UNCHANGED sent
          ELSE /\ sent' = [sent EXCEPT ![c] =
                            Append(@, [transport |-> client.HTTPClient, req |-> r.req])]
               /\ Enter(c, "AwaitingResponse")
               /\ UNCHANGED ret
  /\ ctxlog' = [ctxlog EXCEPT ![c].atDo = ctx[c]]
  /\ UNCHANGED <<client, ctx, mem, msg0, clock, body, reply, io,
                 signLog, ctor, trip, builder, built>>

\* the caller's context is cancelled or its deadline passes during the call
CancelCtx(c, k) ==
  /\ pc[c] \in {"Signing", "Serializing", "Requesting", "AwaitingResponse", "Parsing"}
  /\ ctx[c] = "active"
  /\ k # "active"
  /\ ctx' = [ctx EXCEPT ![c] = k]
  /\ UNCHANGED <<client, pc, stages, mem, msg0, clock, body, sent, reply, io, ctxlog, ret,
                 signLog, ctor, trip, builder, built>>

\* the state of the context the dispatched request is bound to, which is what
\* the transport observes
RequestCtx(c) ==
  IF sent[c][Len(sent[c])].req.Ctx = "ctx" THEN ctx[c] ELSE "active"

\* Do returns
DoReturns(c, r) ==
  /\ pc[c] = "AwaitingResponse"
  /\ r \in DoReplies(sent[c][Len(sent[c])].transport, RequestCtx(c))
  /\ reply' = [reply EXCEPT ![c] = r]
  /\ ctxlog' = [ctxlog EXCEPT ![c].atReturn = ctx[c]]
  /\ LET a == AfterDo(r)
     IN IF a.next = "Done"
          THEN Finish(c, NilResponse, a.err)
          ELSE IF a.next = "Panicked"
            THEN pc' = [pc EXCEPT ![c] = "Panicked"] /\ UNCHANGED <<stages, ret>>
            ELSE Enter(c, a.next) /\ UNCHANGED ret
  /\ UNCHANGED <<client, ctx, mem, msg0, clock, body, sent, io,
                 signLog, ctor, trip, builder, built>>

\* the body is read and parsed, the code checked; the deferred Close runs on return
Parse(c) ==
  /\ pc[c] = "Parsing"
  /\ LET r == ParseResponse(reply[c].stream)
     IN /\ Finish(c, r.resp, r.err)
        /\ io' = [io EXCEPT ![c] = [reads |-> @.reads + r.reads,
                                    parses |-> @.parses + r.parses,
                                    closes |-> @.closes + BodyCloses(r)]]
  /\ UNCHANGED <<client, ctx, mem, msg0, clock, body, sent, reply, ctxlog,
                 signLog, ctor, trip, builder, built>>

\* the caller is done with the result and may call Send again
Return(c) ==
  /\ pc[c] = "Done"
  /\ pc' = [pc EXCEPT ![c] = "Idle"]
  /\ stages' = [stages EXCEPT ![c] = <<>>]
  /\ ctx' = [ctx EXCEPT ![c] = "active"]
  /\ mem' = [mem EXCEPT ![c] = IdleMem]
  /\ msg0' = [msg0 EXCEPT ![c] = ZeroMessage]
  /\ clock' = [clock EXCEPT ![c] = NoClock]
  /\ body' = [body EXCEPT ![c] = NoBody]
  /\ sent' = [sent EXCEPT ![c] = <<>>]
  /\ reply' = [reply EXCEPT ![c] = NoReply]
  /\ io' = [io EXCEPT ![c] = NoIO]
  /\ ctxlog' = [ctxlog EXCEPT ![c] = NoCtxLog]
  /\ ret' = [ret EXCEPT ![c] = NoRet]
  /\ UNCHANGED <<client, signLog, ctor, trip, builder, built>>

Next ==
  \/ \E t \in Transports : SetHTTPClient(t)
  \/ \E c \in Calls, m \in Messages, k \in CtxStates : Call(c, m, k)
  \/ \E c \in Calls, now \in ClockValues : Sign(c, now)
  \/ \E c \in Calls : Serialize(c)
  \/ \E c \in Calls : Request(c)
  \/ \E c \in Calls, k \in CtxStates : CancelCtx(c, k)
  \/ \E c \in Calls, r \in Replies : DoReturns(c, r)
  \/ \E c \in Calls : Parse(c)
  \/ \E c \in Calls : Return(c)

Spec == Init /\ [][Next]_vars

\* the inputs of the concurrent callers: an envelope that serializes and one
\* that does not, two clock readings, a success and an API failure under the
\* statuses 200 and 400, and two transport errors
ConcMessages == {NewTextMessage("test"), Message(MsgTypeText, ChanContent, NilMap, 0, "")}

ConcClockValues == {1, 1599360473}

ConcReplies ==
  {RespReply(200, Stream(FALSE, BodySuccess)),
   RespReply(200, Stream(FALSE, BodyKeyWords)),
   RespReply(400, Stream(FALSE, BodySuccess)),
   RespReply(400, Stream(FALSE, BodyKeyWords)),
   ErrReply(NewErr("connection refused")),
   ErrReply(CtxErr("canceled"))}

\* Send calls of several goroutines on one Client, interleaved step by step
ConcNext ==
  \/ \E c \in Calls, m \in ConcMessages, k \in {"active", "canceled"} :
       ConcurrentCall(c, m, k)
  \/ \E c \in Calls, now \in ConcClockValues : Sign(c, now)
  \/ \E c \in Calls : Serialize(c)
  \/ \E c \in Calls : Request(c)
  \/ \E c \in Calls, r \in ConcReplies : DoReturns(c, r)
  \/ \E c \in Calls : Parse(c)
  \/ \E c \in Calls : Return(c)

ConcSpec == Init /\ [][ConcNext]_vars

\* secrets for GenSign, as a text that does not end in a zero byte and the number
\* of zero bytes that follow it: those of TestGenSign and
\* TestGenSignDifferentInputs in kind, two with a newline and a digit in them,
\* one longer than the block of SHA-256
LongSecret == "a_secret_that_is_longer_than_the_sixty_four_bytes_of_a_sha256_block"

SignSecrets ==
  {[text |-> "", nuls |-> 0], [text |-> "demo", nuls |-> 0], [text |-> "demo", nuls |-> 1],
   [text |-> "\nx", nuls |-> 0], [text |-> "2\nx", nuls |-> 0],
   [text |-> LongSecret, nuls |-> 0]}

SecretOf(s) == s.text \o Zeros(s.nuls)

SignTimestamps == {0 - 1, 1, 12, 1599360473}

\* GenSign(secret, timestamp) is called, directly and as the signing block of a
\* Send would call it
GenSignCall(s, t) ==
  /\ Len(signLog) < MaxSignCalls
  /\ LET r == GenSign(SecretOf(s), t)
         b == SignCopy(SecretOf(s), NewTextMessage("test"), t)
     IN signLog' = Append(signLog,
                     [text |-> s.text, nuls |-> s.nuls, secret |-> SecretOf(s),
                      timestamp |-> t, key |-> StringToSign(SecretOf(s), t),
                      sign |-> r.sign, err |-> r.err,
                      blockErr |-> b.err])
  /\ UNCHANGED <<client, pc, stages, ctx, mem, msg0, clock, body, sent, reply, io, ctxlog, ret,
                 ctor, trip, builder, built>>

SignerInit == Constructed("https://open.feishu.cn/open-apis/bot/v2/hook/abc123", "demo")

SignerNext == \E s \in SignSecrets, t \in SignTimestamps : GenSignCall(s, t)

SignerSpec == SignerInit /\ [][SignerNext]_vars

\* the steps on Messages and Cards leave the client and its calls alone
SendIdle ==
  UNCHANGED <<client, pc, stages, ctx, mem, msg0, clock, body, sent, reply, io, ctxlog, ret,
              ctor>>

\* arguments of the constructors
Texts == {"", "text message"}

Languages == {LanguageZhCN, LanguageEnUS}

PostContents ==
  {NewPostContent(title, ps) :
     title \in {"Title", ""},
     ps \in {<<>>, <<NewParagraph(<<NewTextElement("Content")>>)>>}}

LangContents == {NewPostLanguageContent(l, c) : l \in Languages, c \in PostContents}

RECURSIVE SeqsUpTo(_, _)
SeqsUpTo(S, n) ==
  IF n = 0 THEN {<<>>}
  ELSE SeqsUpTo(S, n - 1) \cup {Append(q, x) : q \in SeqsUpTo(S, n - 1), x \in S}

CardConfigs == {NilMap, MakeMap({}), MakeMap({<<"wide_screen_mode", "bool", TRUE>>})}

CardBodies == {NilPtr, Ptr("Hello, World!")}

CardHeaders == {NilPtr, Ptr("Title")}

Schemas == {"2.0", ""}

Cards == {Card(sc, cf, b, h) : sc \in Schemas, cf \in CardConfigs, b \in CardBodies,
                              h \in CardHeaders}

RawCards == {NilMap, MakeMap({}), CardMap}

\* Messages built by hand: those Send is called with, one with an empty map
\* that is not nil, one with a number in its content
HandBuilt ==
  Messages \cup {Message(MsgTypeText, MakeMap({}), NilMap, 0, ""),
                 Message(MsgTypeText, MakeMap({<<"count", "int", 1>>}), NilMap, 1599360473,
                         "abc123")}

\* the constructor by returned the Message m
Made(by, m, lcs) ==
  /\ trip.stage = "none"
  /\ trip' = [NoTrip EXCEPT !.stage = "made", !.by = by, !.msg = m, !.langContents = lcs]
  /\ SendIdle
  /\ UNCHANGED <<signLog, builder, built>>

\* the constructor by dereferenced a nil pointer
Panics(by) ==
  /\ trip.stage = "none"
  /\ trip' = [NoTrip EXCEPT !.stage = "panicked", !.by = by]
  /\ SendIdle
  /\ UNCHANGED <<signLog, builder, built>>

CallNewTextMessage(text) == Made("NewTextMessage", NewTextMessage(text), <<>>)

CallNewImageMessage(imageKey) == Made("NewImageMessage", NewImageMessage(imageKey), <<>>)

CallNewShareChatMessage(id) == Made("NewShareChatMessage", NewShareChatMessage(id), <<>>)

\* content is a *PostContent: content.Title of a nil pointer panics
CallNewPostMessage(lang, content) ==
  IF content.isNil THEN Panics("NewPostMessage")
  ELSE Made("NewPostMessage", NewPostMessage(lang, content.v), <<>>)

CallNewPostMessageMultiLanguage(langContents) ==
  Made("NewPostMessageMultiLanguage", NewPostMessageMultiLanguage(langContents), langContents)

\* c is a *Card: c.ToMap() of a nil pointer panics
CallNewInteractiveMessage(c) ==
  IF c.isNil THEN Panics("NewInteractiveMessage")
  ELSE Made("NewInteractiveMessage", NewInteractiveMessage(c.v), <<>>)

CallNewInteractiveMessageFromMap(raw) ==
  Made("NewInteractiveMessageFromMap", NewInteractiveMessageFromMap(raw), <<>>)

\* a caller fills in a Message struct itself
BuildByHand(m) == Made("literal", m, <<>>)

\* json.Marshal(msg)
Encode ==
  /\ trip.stage = "made"
  /\ LET r == MarshalMessage(trip.msg)
     IN trip' = IF r.err.nil THEN [trip EXCEPT !.stage = "encoded", !.json = r.json]
                ELSE [trip EXCEPT !.stage = "unencodable"]
  /\ SendIdle
  /\ UNCHANGED <<signLog, builder, built>>

\* json.Unmarshal(data, &msg) with a zero Message
Decode ==
  /\ trip.stage = "encoded"
  /\ trip' = [trip EXCEPT !.stage = "decoded", !.back = UnmarshalMessage(trip.json)]
  /\ SendIdle
  /\ UNCHANGED <<signLog, builder, built>>

MessageNext ==
  \/ \E text \in Texts : CallNewTextMessage(text)
  \/ \E k \in {"", "img_key_123"} : CallNewImageMessage(k)
  \/ \E id \in {"", "oc_12345"} : CallNewShareChatMessage(id)
  \/ \E l \in Languages, c \in {NilPtr} \cup {Ptr(x) : x \in PostContents} :
       CallNewPostMessage(l, c)
  \/ \E lcs \in SeqsUpTo(LangContents, MaxLangContents) :
       CallNewPostMessageMultiLanguage(lcs)
  \/ \E c \in {NilPtr} \cup {Ptr(x) : x \in Cards} : CallNewInteractiveMessage(c)
  \/ \E raw \in RawCards : CallNewInteractiveMessageFromMap(raw)
  \/ \E m \in HandBuilt : BuildByHand(m)
  \/ Encode
  \/ Decode

MessageSpec == SignerInit /\ [][MessageNext]_vars

\* a slip: the Messages hold the map the Card keeps, which the setters write
BuiltAfterSetShared(b, c) == [i \in 1..Len(b) |-> [b[i] EXCEPT !.msg.Card = ToMap(c)]]

\* the Messages built so far, after a setter has made the Card c: the setters
\* assign a field of the Card and touch nothing else
BuiltAfterSet(b, c) == b

\* card := NewCard(schema)
CallNewCard(schema) ==
  /\ builder.stage = "none"
  /\ builder' = [NoCard EXCEPT !.stage = "live", !.schema = schema, !.obj = NewCard(schema),
                                !.ret = NewCard(schema)]
  /\ SendIdle
  /\ UNCHANGED <<signLog, trip, built>>

\* a setter has made the Card c; it returns the Card
Set(c, last) ==
  /\ builder' = [builder EXCEPT !.stage = "live", !.obj = c, !.last = last, !.ret = c,
                                 !.map = NilMap]
  /\ built' = BuiltAfterSet(built, c)
  /\ SendIdle
  /\ UNCHANGED <<signLog, trip>>

CallSetConfig(config) ==
  /\ builder.stage # "none"
  /\ Set(SetConfig(builder.obj, config),
         [builder.last EXCEPT !.config = [called |-> TRUE, v |-> config]])

CallSetBody(b) ==
  /\ builder.stage # "none"
  /\ Set(SetBody(builder.obj, b), [builder.last EXCEPT !.body = [called |-> TRUE, v |-> b]])

CallSetHeader(header) ==
  /\ builder.stage # "none"
  /\ Set(SetHeader(builder.obj, header),
         [builder.last EXCEPT !.header = [called |-> TRUE, v |-> header]])

\* card.ToMap()
CallToMap ==
  /\ builder.stage = "live"
  /\ builder' = [builder EXCEPT !.stage = "mapped", !.map = ToMap(builder.obj)]
  /\ SendIdle
  /\ UNCHANGED <<signLog, trip, built>>

\* message := NewInteractiveMessage(card)
BuildMessage ==
  /\ builder.stage # "none"
  /\ Len(built) < MaxBuilt
  /\ built' = Append(built, [msg |-> NewInteractiveMessage(builder.obj), at |-> builder.obj])
  /\ SendIdle
  /\ UNCHANGED <<signLog, trip, builder>>

CardNext ==
  \/ \E schema \in Schemas : CallNewCard(schema)
  \/ \E config \in CardConfigs : CallSetConfig(config)
  \/ \E b \in CardBodies : CallSetBody(b)
  \/ \E header \in CardHeaders : CallSetHeader(header)
  \/ CallToMap
  \/ BuildMessage

CardSpec == SignerInit /\ [][CardNext]_vars

\* a Do that was called returns: the http.Client of NewClient gives up after its
\* 30 second Timeout at the latest, and at once when the context is done
FairSpec == Spec /\ \A c \in Calls : WF_vars(\E r \in Replies : DoReturns(c, r))


(***************************************************************************)
(* Properties of Client.Send                                               *)
(***************************************************************************)

Returned(c) == pc[c] = "Done"

\* the request bodies a call has handed to the transport
DispatchedBodies(c) == {sent[c][i].req.Body : i \in 1..Len(sent[c])}

\* Do returned a response and no error, its body could be read, and the bytes
\* decode as a Response
GotParsedResponse(c) ==
  /\ reply[c].kind = "resp"
  /\ reply[c].err.nil
  /\ ~reply[c].stream.readFails
  /\ UnmarshalResponse(reply[c].stream.data).err.nil

ParsedCode(c) == UnmarshalResponse(reply[c].stream.data).Code

ParsedMsg(c) == UnmarshalResponse(reply[c].stream.data).Msg

\* C1: when the transport's response parses as a Response with code # 0, Send
\* returns a non-nil Response with that code and message together with a non-nil
\* error whose text carries that code and message.
C1_ApiFailureDualReturn ==
  \A c \in Calls :
    (Returned(c) /\ GotParsedResponse(c) /\ ParsedCode(c) # 0) =>
      /\ ~ret[c].resp.nil
      /\ ret[c].resp.Code = ParsedCode(c)
      /\ ret[c].resp.Msg = ParsedMsg(c)
      /\ ~ret[c].err.nil
      /\ ret[c].err.msg =
           "API error (code " \o Decimal(ParsedCode(c)) \o "): " \o ParsedMsg(c)

C1_Witness ==
  \E c \in Calls :
    /\ Returned(c)
    /\ reply[c].kind = "resp"
    /\ reply[c].stream = Stream(FALSE, BodyKeyWords)
    /\ ret[c].resp.Code = 19024
    /\ ~ret[c].err.nil

\* C2: Send returns a nil error exactly when the transport returned a response
\* whose body parsed as a Response with code 0, and then the Response returned is
\* non-nil with code 0.
C2_NilErrorIffCodeZero ==
  \A c \in Calls :
    Returned(c) =>
      /\ ret[c].err.nil <=> (GotParsedResponse(c) /\ ParsedCode(c) = 0)
      /\ ret[c].err.nil => (~ret[c].resp.nil /\ ret[c].resp.Code = 0)

C2_Witness ==
  \E c \in Calls :
    /\ Returned(c)
    /\ reply[c].stream = Stream(FALSE, BodySuccess)
    /\ ret[c].err.nil
    /\ ~ret[c].resp.nil

\* C3: with a non-empty secret every dispatched body has a timestamp member and
\* a sign member, and sign is GenSign(secret, t) for the t of that body, whatever
\* the clock returned.
C3_SignedBodyVerifies ==
  \A c \in Calls :
    client.Secret # "" =>
      \A b \in DispatchedBodies(c) :
        /\ "timestamp" \in DOMAIN b
        /\ "sign" \in DOMAIN b
        /\ b["sign"] = GenSign(client.Secret, b["timestamp"]).sign

\* C4: in every dispatched body timestamp and sign are both present or both
\* absent.
C4_TimestampAndSignTogether ==
  \A c \in Calls :
    \A b \in DispatchedBodies(c) :
      ("timestamp" \in DOMAIN b) <=> ("sign" \in DOMAIN b)

\* C5: with an empty secret no dispatched body has a timestamp or a sign member,
\* whatever envelope the caller passed.
C5_UnsignedBodyBare ==
  \A c \in Calls :
    client.Secret = "" =>
      \A b \in DispatchedBodies(c) :
        "timestamp" \notin DOMAIN b /\ "sign" \notin DOMAIN b

\* C6: Send never changes the caller's Message: during and after the call its
\* MsgType, Content, Card, Timestamp and Sign are what they were at the call.
C6_CallerMessageUnchanged ==
  \A c \in Calls : pc[c] # "Idle" => mem[c].caller = msg0[c]

C6_Witness ==
  \E c \in Calls :
    /\ Returned(c)
    /\ clock[c].read
    /\ mem[c].copy.Sign # msg0[c].Sign
    /\ mem[c].copy.Timestamp # msg0[c].Timestamp
    /\ mem[c].caller = msg0[c]

\* the envelope of the call cannot be encoded, or the signer reported an error
SerializationFails(c) == ~(Encodable(msg0[c].Content) /\ Encodable(msg0[c].Card))

SigningFails(c) == clock[c].read /\ ~GenSign(client.Secret, clock[c].t).err.nil

\* C7: when signing or serialization fails, Send returns a nil Response and a
\* non-nil error, and Do is not invoked in that call.
C7_NoRequestOnLocalFailure ==
  \A c \in Calls :
    (pc[c] # "Idle" /\ (SerializationFails(c) \/ SigningFails(c))) =>
      /\ Len(sent[c]) = 0
      /\ pc[c] \in {"Signing", "Serializing", "Done"}
      /\ Returned(c) => (ret[c].resp.nil /\ ~ret[c].err.nil)

C7_Witness ==
  \E c \in Calls :
    /\ Returned(c)
    /\ SerializationFails(c)
    /\ ret[c].resp.nil
    /\ ret[c].err.msg = "failed to marshal message: json: unsupported type: chan int"
    /\ Len(sent[c]) = 0

\* C8: when Do returns an error, Send returns a nil Response and an error that
\* wraps the transport's error, and no response body is read or parsed.
C8_TransportErrorWrapped ==
  \A c \in Calls :
    (Returned(c) /\ ~reply[c].err.nil) =>
      /\ ret[c].resp.nil
      /\ ~ret[c].err.nil
      /\ ret[c].err.wraps = reply[c].err.msg
      /\ ret[c].err.msg = "failed to send request: " \o reply[c].err.msg
      /\ io[c].reads = 0
      /\ io[c].parses = 0

C8_Witness ==
  \E c \in Calls :
    /\ Returned(c)
    /\ reply[c] = ErrReply(NewErr("connection refused"))
    /\ ret[c].err.wraps = "connection refused"

\* C9: when the response body cannot be parsed as a Response, Send returns a nil
\* Response and a decode-failure error, not an API failure.
C9_DecodeFailure ==
  \A c \in Calls :
    (/\ Returned(c)
     /\ reply[c].kind = "resp"
     /\ reply[c].err.nil
     /\ ~reply[c].stream.readFails
     /\ ~UnmarshalResponse(reply[c].stream.data).err.nil) =>
      /\ ret[c].resp.nil
      /\ ~ret[c].err.nil
      /\ ret[c].err.wraps = UnmarshalResponse(reply[c].stream.data).err.msg
      /\ ret[c].err.msg = "failed to unmarshal response: " \o ret[c].err.wraps

C9_Witness ==
  \E c \in Calls :
    /\ Returned(c)
    /\ reply[c].stream = Stream(FALSE, BodyNotJSON)
    /\ ret[c].resp.nil
    /\ ret[c].err.msg = "failed to unmarshal response: invalid character"


\* the stages of one call, in order
StagePath(secret) ==
  IF secret # ""
    THEN <<"Signing", "Serializing", "Requesting", "AwaitingResponse", "Parsing">>
    ELSE <<"Serializing", "Requesting", "AwaitingResponse", "Parsing">>

IsPrefix(s, t) == Len(s) <= Len(t) /\ s = SubSeq(t, 1, Len(s))

LastStage(c) == IF stages[c] = <<>> THEN "Idle" ELSE stages[c][Len(stages[c])]

\* the outcome a returned (Response, error) stands for, read off the error text
Outcome(r) ==
  IF r.err.nil THEN "Success"
  ELSE IF r.err.msg = "failed to generate signature: " \o r.err.wraps THEN "SigningFailure"
  ELSE IF r.err.msg = "failed to marshal message: " \o r.err.wraps THEN "SerializationFailure"
  ELSE IF r.err.msg = "failed to create request: " \o r.err.wraps THEN "RequestFailure"
  ELSE IF r.err.msg = "failed to send request: " \o r.err.wraps THEN "TransportFailure"
  ELSE IF r.err.msg = "failed to read response body: " \o r.err.wraps THEN "ReadFailure"
  ELSE IF r.err.msg = "failed to unmarshal response: " \o r.err.wraps THEN "DecodeFailure"
  ELSE IF r.err.msg = "API error (code " \o Decimal(r.resp.Code) \o "): " \o r.resp.Msg
    THEN "APIFailure"
  ELSE "Unknown"

FiveKinds ==
  {"SigningFailure", "SerializationFailure", "TransportFailure", "DecodeFailure", "APIFailure"}

\* the stage in which each outcome is decided
OutcomeStage(o) ==
  CASE o = "SigningFailure" -> "Signing"
    [] o = "SerializationFailure" -> "Serializing"
    [] o = "RequestFailure" -> "Requesting"
    [] o = "TransportFailure" -> "AwaitingResponse"
    [] o \in {"ReadFailure", "DecodeFailure", "APIFailure", "Success"} -> "Parsing"
    [] OTHER -> "none"

StagesInOrder(c) ==
  /\ IsPrefix(stages[c], StagePath(client.Secret))
  /\ pc[c] \in {"Signing", "Serializing", "Requesting", "AwaitingResponse", "Parsing"}
       => LastStage(c) = pc[c]

\* C10 as stated: the stages are passed in order and every call ends as Success
\* or as Failed with one of the five kinds SigningFailure, SerializationFailure,
\* TransportFailure, DecodeFailure, APIFailure.
C10_FiveKindsOnly ==
  \A c \in Calls :
    /\ StagesInOrder(c)
    /\ pc[c] # "Panicked"
    /\ Returned(c) => Outcome(ret[c]) \in {"Success"} \cup FiveKinds

\* C10 as amended: the stages are passed in order, none twice, Signing only with
\* a secret; a call that returns ends as Success or as Failed with one of seven
\* kinds (the five, a request that could not be built, a body that could not be
\* read), decided in the stage the kind belongs to; a call whose transport
\* returns neither a response nor an error ends in a panic while awaiting the
\* response.
C10_StagesAndOutcome ==
  \A c \in Calls :
    /\ StagesInOrder(c)
    /\ Returned(c) =>
         /\ Outcome(ret[c]) \in {"Success", "RequestFailure", "ReadFailure"} \cup FiveKinds
         /\ OutcomeStage(Outcome(ret[c])) = LastStage(c)
    /\ pc[c] = "Panicked" =>
         (reply[c].kind = "nil" /\ LastStage(c) = "AwaitingResponse")

C10_Witness ==
  \E c \in Calls :
    /\ Returned(c)
    /\ stages[c] = <<"Signing", "Serializing", "Requesting", "AwaitingResponse", "Parsing">>
    /\ Outcome(ret[c]) = "Success"


\* C11: a call invokes Do at most once; a failed attempt (transport, decode or
\* API failure) is returned without a second dispatch.
C11_SingleDispatch ==
  \A c \in Calls :
    /\ Len(sent[c]) <= 1
    /\ (Returned(c) /\ reply[c].kind # "none") => Len(sent[c]) = 1

C11_Witness ==
  \E c \in Calls :
    /\ Returned(c)
    /\ Outcome(ret[c]) = "TransportFailure"
    /\ Len(sent[c]) = 1

\* C12: when Do has returned a response, its body is closed exactly once by the
\* time Send returns, whether the read failed, the decoding failed, the API
\* reported a failure or the call succeeded; it is never closed twice.
C12_BodyClosedOnce ==
  \A c \in Calls :
    /\ io[c].closes <= 1
    /\ (Returned(c) /\ reply[c].kind = "resp") => io[c].closes = 1
    /\ reply[c].kind # "resp" => io[c].closes = 0

C12_Witness ==
  \E c \in Calls :
    /\ Returned(c)
    /\ reply[c].kind = "resp"
    /\ Outcome(ret[c]) = "DecodeFailure"
    /\ io[c].closes = 1


CtxDone(k) == k \in {"canceled", "deadline"}

\* the transport the call's request went to is the http.Client of NewClient
DefaultTransport(c) == Len(sent[c]) > 0 /\ sent[c][1].transport = "default"

\* C13 as stated: a Send called with a context that is already cancelled or
\* expired returns no Response and a transport-failure error, and parses no
\* response body.
C13_DoneCtxTransportFailure ==
  \A c \in Calls :
    CtxDone(ctxlog[c].atCall) =>
      /\ pc[c] # "Panicked"
      /\ io[c].parses = 0
      /\ Returned(c) =>
           (ret[c].resp.nil /\ Outcome(ret[c]) = "TransportFailure")

\* C13 as amended: through a transport that honours the request's context (the
\* http.Client of NewClient), a Send called with a context that is already
\* cancelled or expired returns no Response and a non-nil error and neither
\* reads nor parses a response body; the error is the transport failure that
\* wraps the context's error when the request was dispatched, and otherwise the
\* serialization or request-construction failure that ended the call earlier.
C13_DoneCtxNoResponse ==
  \A c \in Calls :
    (CtxDone(ctxlog[c].atCall) /\ client.HTTPClient = "default") =>
      /\ pc[c] \notin {"Parsing", "Panicked"}
      /\ io[c].reads = 0
      /\ io[c].parses = 0
      /\ Returned(c) =>
           /\ ret[c].resp.nil
           /\ ~ret[c].err.nil
           /\ Len(sent[c]) = 1 =>
                /\ Outcome(ret[c]) = "TransportFailure"
                /\ ret[c].err.wraps = CtxErr(ctxlog[c].atCall).msg
           /\ Len(sent[c]) = 0 =>
                Outcome(ret[c]) \in {"SerializationFailure", "RequestFailure"}

C13_Witness ==
  \E c \in Calls :
    /\ Returned(c)
    /\ ctxlog[c].atCall = "canceled"
    /\ DefaultTransport(c)
    /\ ret[c].resp.nil
    /\ ret[c].err.msg = "failed to send request: context canceled"

\* the context was live when Do was called and is done while Do has not returned
CancelledInFlight(c) ==
  /\ pc[c] = "AwaitingResponse"
  /\ ctxlog[c].atDo = "active"
  /\ CtxDone(ctx[c])

\* C14 as stated: when the context is cancelled or expires while Send awaits
\* the transport, the call returns a cancellation-class error.
C14_InFlightCancelAnyTransport ==
  \A c \in Calls :
    (/\ pc[c] \in {"Parsing", "Done", "Panicked"}
     /\ ctxlog[c].atDo = "active"
     /\ CtxDone(ctxlog[c].atReturn)) =>
      /\ Returned(c)
      /\ ret[c].resp.nil
      /\ ret[c].err.wraps = CtxErr(ctxlog[c].atReturn).msg

\* C14 as amended: through a transport that honours the request's context (the
\* http.Client of NewClient), a Send whose context is cancelled or expires
\* while it awaits the transport eventually returns, with no Response and the
\* transport failure that wraps the context's error.
C14_InFlightCancelReturns ==
  \A c \in Calls :
    (CancelledInFlight(c) /\ DefaultTransport(c)) ~>
      (/\ Returned(c)
       /\ ret[c].resp.nil
       /\ CtxDone(ctxlog[c].atReturn)
       /\ ret[c].err.msg = "failed to send request: " \o CtxErr(ctxlog[c].atReturn).msg)

C14_Witness ==
  \E c \in Calls :
    /\ Returned(c)
    /\ DefaultTransport(c)
    /\ ctxlog[c].atDo = "active"
    /\ ctxlog[c].atReturn = "deadline"
    /\ ret[c].err.msg = "failed to send request: context deadline exceeded"


\* C16: every request Send dispatches is an HTTP POST to the client's
\* WebhookURL with the header Content-Type: application/json, and its body is
\* the JSON serialization of Send's copy of the envelope, which carries the
\* call's timestamp and signature when the client has a secret.
C16_DispatchedRequestShape ==
  \A c \in Calls : \A i \in 1..Len(sent[c]) :
    LET req == sent[c][i].req
        copy == mem[c].copy
    IN /\ req.Method = "POST"
       /\ req.URL = client.WebhookURL
       /\ <<"Content-Type", "application/json">> \in req.Header
       /\ MarshalMessage(copy).err.nil
       /\ req.Body = MarshalMessage(copy).json
       /\ IF client.Secret = ""
            THEN copy = msg0[c]
            ELSE /\ copy.Timestamp = clock[c].t
                 /\ copy.Sign = GenSign(client.Secret, clock[c].t).sign
                 /\ [copy EXCEPT !.Timestamp = msg0[c].Timestamp,
                                 !.Sign = msg0[c].Sign] = msg0[c]

C16_Witness ==
  \E c \in Calls :
    /\ Len(sent[c]) = 1
    /\ client.Secret # ""
    /\ clock[c].t = 1599360473
    /\ msg0[c].Sign = ""
    /\ sent[c][1].req.Method = "POST"
    /\ DOMAIN sent[c][1].req.Body = {"msg_type", "content", "timestamp", "sign"}
    /\ sent[c][1].req.Body["sign"] = GenSign(client.Secret, 1599360473).sign


\* Send run on its own: the request it dispatches and what it returns, from the
\* client's fields, the envelope, the clock reading and the reply of Do
SendAlone(cl, m, now, r) ==
  LET sg == IF SigningEnabled(cl.Secret) THEN SignCopy(cl.Secret, m, now)
            ELSE [msg |-> m, err |-> NoErr]
      ser == SerializeCopy(sg.msg)
      rq == BuildRequest(cl.WebhookURL, ser.json)
      a == AfterDo(r)
      p == ParseResponse(r.stream)
      one == <<[transport |-> cl.HTTPClient, req |-> rq.req]>>
  IN IF ~sg.err.nil THEN [sent |-> <<>>, ret |-> [resp |-> NilResponse, err |-> sg.err]]
     ELSE IF ~ser.err.nil
       THEN [sent |-> <<>>, ret |-> [resp |-> NilResponse, err |-> ser.err]]
     ELSE IF ~rq.err.nil
       THEN [sent |-> <<>>, ret |-> [resp |-> NilResponse, err |-> rq.err]]
     ELSE IF a.next = "Done"
       THEN [sent |-> one, ret |-> [resp |-> NilResponse, err |-> a.err]]
     ELSE [sent |-> one, ret |-> [resp |-> p.resp, err |-> p.err]]

\* two calls are in progress at once, each past its first step
Overlapping(c, d) ==
  /\ c # d
  /\ pc[c] \notin {"Idle", "Signing"}
  /\ pc[d] \notin {"Idle", "Signing"}

\* C15: however Send calls on one Client interleave, the request a call
\* dispatches and the (Response, error) it returns are those of the same call run
\* alone with its envelope, clock reading and transport reply, and no step of a
\* Send changes a field of the Client.
C15_CallsIndependent ==
  /\ [](\A c \in Calls :
          LET alone == SendAlone(client, msg0[c], clock[c].t, reply[c])
          IN /\ Len(sent[c]) > 0 => sent[c] = alone.sent
             /\ Returned(c) => (sent[c] = alone.sent /\ ret[c] = alone.ret))
  /\ [][client' = client]_vars

C15_Witness ==
  \E c \in Calls, d \in Calls :
    /\ Overlapping(c, d)
    /\ Returned(c) /\ Returned(d)
    /\ clock[c].read /\ clock[d].read
    /\ clock[c].t # clock[d].t
    /\ Outcome(ret[c]) = "Success"
    /\ Outcome(ret[d]) = "APIFailure"


\* the decimal text of the timestamps, written out
TimestampText(t) ==
  CASE t = 0 - 1 -> "-1"
    [] t = 1 -> "1"
    [] t = 12 -> "12"
    [] t = 1599360473 -> "1599360473"

SignLogged == 1..Len(signLog)

\* C17: GenSign(secret, timestamp) is the standard Base64 encoding of the
\* HMAC-SHA256 of a zero-length message under the key made of the decimal text
\* of the timestamp, one newline and the secret, in that order.
C17_SignatureFormula ==
  \A i \in SignLogged :
    LET e == signLog[i]
    IN e.sign = Base64Std(HmacSHA256(TimestampText(e.timestamp) \o "\n" \o e.secret, ""))

C17_Witness ==
  \E i \in SignLogged :
    /\ signLog[i].secret = "demo"
    /\ signLog[i].timestamp = 1599360473
    /\ signLog[i].sign = "base64<hmac-sha256<1599360473\ndemo" \o Zeros(49) \o "|>>"

\* C18: GenSign returns a nil error for every secret, the empty one included,
\* and every timestamp, so that the signing block of Send never fails.
C18_GenSignNeverFails ==
  \A i \in SignLogged :
    /\ signLog[i].err.nil
    /\ signLog[i].sign # ""
    /\ signLog[i].blockErr.nil

C18_Witness ==
  \E i \in SignLogged, j \in SignLogged :
    /\ signLog[i].secret = "" /\ signLog[i].err.nil
    /\ signLog[j].timestamp < 0 /\ signLog[j].err.nil /\ signLog[j].blockErr.nil

C20_DifferentInputsDifferentSigns ==
  \A i \in SignLogged, j \in SignLogged :
    (signLog[i].secret # signLog[j].secret \/ signLog[i].timestamp # signLog[j].timestamp)
      => signLog[i].sign # signLog[j].sign

\* the key of the call fits the block of SHA-256, so that hmac.New pads it
KeyFitsBlock(e) == Len(TimestampText(e.timestamp) \o "\n" \o e.secret) <= HmacBlockSize

\* C20 as amended: two calls of GenSign that differ in the timestamp, or in the
\* secret by more than zero bytes at its end, return different signatures
\* (HMAC-SHA256 itself taken to be free of collisions); two calls with the same
\* timestamp whose secrets differ only in zero bytes at the end, and whose keys
\* are at most 64 bytes long, return the same signature.
C20_SignsDifferUpToZeroPadding ==
  \A i \in SignLogged, j \in SignLogged :
    /\ (signLog[i].timestamp # signLog[j].timestamp \/ signLog[i].text # signLog[j].text)
         => signLog[i].sign # signLog[j].sign
    /\ (/\ signLog[i].timestamp = signLog[j].timestamp
        /\ signLog[i].text = signLog[j].text
        /\ KeyFitsBlock(signLog[i]) /\ KeyFitsBlock(signLog[j]))
         => signLog[i].sign = signLog[j].sign

C20_Witness ==
  \E i \in SignLogged, j \in SignLogged, k \in SignLogged :
    /\ signLog[i].secret = "demo" /\ signLog[j].secret = "demo" \o NUL
    /\ signLog[i].timestamp = signLog[j].timestamp
    /\ signLog[i].sign = signLog[j].sign
    /\ signLog[k].secret = "demo" /\ signLog[k].timestamp # signLog[i].timestamp
    /\ signLog[k].sign # signLog[i].sign


\* C23: after NewClient(url, secret) and any SetHTTPClient calls, WebhookURL and
\* Secret are the constructor's arguments, HTTPClient is the argument of the
\* last SetHTTPClient (the default transport when there was none), and every
\* request of a Send started afterwards is handed to that transport.
C23_ClientFieldsAndTransport ==
  /\ client.WebhookURL = ctor.WebhookURL
  /\ client.Secret = ctor.Secret
  /\ client.HTTPClient = (IF ctor.set = "none" THEN "default" ELSE ctor.set)
  /\ \A c \in Calls : \A i \in 1..Len(sent[c]) :
       sent[c][i].transport = (IF ctor.set = "none" THEN "default" ELSE ctor.set)

C23_Witness ==
  \E c \in Calls :
    /\ ctor.set = "mock"
    /\ ctor.Secret = "test_secret"
    /\ client.Secret = "test_secret"
    /\ Returned(c)
    /\ Len(sent[c]) = 1
    /\ sent[c][1].transport = "mock"


\* the two calls got responses with the same body
SameBody(c, d) ==
  /\ Returned(c) /\ Returned(d)
  /\ reply[c].kind = "resp" /\ reply[d].kind = "resp"
  /\ reply[c].stream = reply[d].stream

\* C24: the result of Send does not depend on the HTTP status of the response:
\* two calls that got the same body, under whatever statuses, return the same
\* Response and the same error, and the call succeeds exactly when the code of
\* the parsed body is 0.
C24_StatusIgnored ==
  \A c \in Calls, d \in Calls :
    SameBody(c, d) =>
      /\ ret[c] = ret[d]
      /\ GotParsedResponse(c) => (ret[c].err.nil <=> ParsedCode(c) = 0)

C24_Witness ==
  \E c \in Calls, d \in Calls :
    /\ SameBody(c, d)
    /\ reply[c].status = 200 /\ reply[d].status = 400
    /\ ret[c] = ret[d]
    /\ Outcome(ret[c]) = "APIFailure"


\* Do returned a response whose body could be read and is the JSON text d
GotBody(c, d) ==
  /\ Returned(c)
  /\ reply[c].kind = "resp"
  /\ reply[c].stream = Stream(FALSE, d)

\* C25: a response body that is valid JSON for a Response and has no code
\* member, such as {} or null, is a success: Send returns a non-nil Response
\* with code 0 and a nil error.
C25_NoCodeIsSuccess ==
  \A c \in Calls : \A d \in {BodyEmptyObject, BodyNull} :
    GotBody(c, d) =>
      /\ ~ret[c].resp.nil
      /\ ret[c].resp.Code = 0
      /\ ret[c].err.nil

C25_Witness ==
  \E c \in Calls :
    /\ GotBody(c, BodyEmptyObject)
    /\ Outcome(ret[c]) = "Success"
    /\ ret[c].resp = ResponsePtr(0, "")

\* C26 as stated: Send ends with a (Response, error) result whatever the
\* transport replies, a Do that returns neither a response nor an error
\* included, and never returns a nil Response together with a nil error.
C26_AlwaysAResult ==
  \A c \in Calls :
    /\ pc[c] # "Panicked"
    /\ Returned(c) => ~(ret[c].resp.nil /\ ret[c].err.nil)


\* C27: the construction of the signing key is injective: two calls of GenSign
\* have the same key decimal(timestamp), newline, secret only when they have the
\* same timestamp and the same secret, for negative timestamps, the empty
\* secret and secrets with newlines and digits in them.
C27_KeyInjective ==
  \A i \in SignLogged, j \in SignLogged :
    signLog[i].key = signLog[j].key
      => (signLog[i].timestamp = signLog[j].timestamp /\ signLog[i].secret = signLog[j].secret)

C27_Witness ==
  \E i \in SignLogged, j \in SignLogged, k \in SignLogged :
    /\ signLog[i].timestamp = 1 /\ signLog[i].secret = "2\nx"
    /\ signLog[j].timestamp = 12 /\ signLog[j].secret = "\nx"
    /\ signLog[i].key = "1\n2\nx" /\ signLog[j].key = "12\n\nx"
    /\ signLog[k].timestamp < 0 /\ signLog[k].secret = ""
    /\ signLog[k].key = "-1\n"


Populated(m) == MapLen(m) > 0

Constructors ==
  {"NewTextMessage", "NewPostMessage", "NewPostMessageMultiLanguage", "NewImageMessage",
   "NewShareChatMessage", "NewInteractiveMessage", "NewInteractiveMessageFromMap"}

LanguagesOf(lcs) == {lcs[i].Language : i \in 1..Len(lcs)}

\* the last argument for the language l
LastFor(lcs, l) ==
  lcs[CHOOSE i \in 1..Len(lcs) :
        lcs[i].Language = l /\ \A j \in (i + 1)..Len(lcs) : lcs[j].Language # l]

\* the post mapping of a Message made by NewPostMessageMultiLanguage
PostOf(m) == (CHOOSE e \in m.Content.entries : e[1] = "post")[3]

\* C28 as stated: the post mapping NewPostMessageMultiLanguage returns has one
\* entry per distinct language of its arguments, each with the title and
\* paragraphs of the last argument for that language, and it has at least one
\* entry.
C28_OneEntryPerLanguage ==
  (trip.stage = "made" /\ trip.by = "NewPostMessageMultiLanguage") =>
    LET post == PostOf(trip.msg)
        lcs == trip.langContents
    IN /\ MapKeys(post) = LanguagesOf(lcs)
       /\ MapLen(post) = Cardinality(LanguagesOf(lcs))
       /\ \A l \in LanguagesOf(lcs) :
            <<l, "map", LanguageEntry(LastFor(lcs, l).Content)>> \in post.entries
       /\ MapLen(post) >= 1


\* the map has the member k exactly when the last call of the setter passed a
\* value that is not nil, and then with that value
HoldsLast(m, k, kind, last) ==
  /\ k \in MapKeys(m) <=> (last.called /\ ~last.v.isNil)
  /\ k \in MapKeys(m) => <<k, kind, last.v>> \in m.entries

\* C29: after any SetConfig, SetBody and SetHeader calls on a Card made by
\* NewCard(schema), ToMap holds schema with the constructor's value and holds
\* config, body and header exactly when the last call of their setter passed a
\* value that is not nil, each with that value; the setters leave the other
\* fields alone and return the card.
C29_ToMapHoldsLastValues ==
  /\ builder.stage # "none" =>
       /\ builder.ret = builder.obj
       /\ builder.obj.Schema = builder.schema
       /\ builder.obj.Config = builder.last.config.v
       /\ builder.obj.Body = builder.last.body.v
       /\ builder.obj.Header = builder.last.header.v
  /\ builder.stage = "mapped" =>
       /\ <<"schema", "string", builder.schema>> \in builder.map.entries
       /\ MapKeys(builder.map) \subseteq {"schema", "config", "body", "header"}
       /\ HoldsLast(builder.map, "config", "map", builder.last.config)
       /\ HoldsLast(builder.map, "body", "struct", builder.last.body)
       /\ HoldsLast(builder.map, "header", "struct", builder.last.header)

C29_Witness ==
  /\ builder.stage = "mapped"
  /\ builder.schema = "2.0"
  /\ builder.last.config = [called |-> TRUE, v |-> NilMap]
  /\ builder.last.header = [called |-> TRUE, v |-> Ptr("Title")]
  /\ ~builder.last.body.called
  /\ MapKeys(builder.map) = {"schema", "header"}

\* C30: a Message built by NewInteractiveMessage(card) is not changed by later
\* SetConfig, SetBody and SetHeader calls on the card: its card mapping keeps
\* the schema, config, body and header the card had when the Message was built.
C30_BuiltMessageKeepsCard ==
  \A i \in 1..Len(built) :
    LET m == built[i].msg
        at == built[i].at
    IN /\ m.MsgType = MsgTypeInteractive
       /\ m.Content = NilMap
       /\ m.Card.entries =
            {<<"schema", "string", at.Schema>>}
              \cup (IF at.Config.isNil THEN {} ELSE {<<"config", "map", at.Config>>})
              \cup (IF at.Body.isNil THEN {} ELSE {<<"body", "struct", at.Body>>})
              \cup (IF at.Header.isNil THEN {} ELSE {<<"header", "struct", at.Header>>})

C30_Witness ==
  \E i \in 1..Len(built) :
    /\ built[i].at.Config = MakeMap({<<"wide_screen_mode", "bool", TRUE>>})
    /\ built[i].at.Header = NilPtr
    /\ builder.obj.Config = NilMap
    /\ builder.obj.Header = Ptr("Title")
    /\ MapKeys(built[i].msg.Card) = {"schema", "config"}

====
